---- MODULE Spec2Model ----
(***************************************************************************)
(* A model of tally_server.py: the monetary decomposition of a             *)
(* tax-inclusive line (calculate_amounts_precise), the aggregation and the *)
(* document construction of create_retail_sale_xml, and the request        *)
(* handler create_voucher.                                                 *)
(*                                                                         *)
(* Representation of numbers.  Python's Decimal arithmetic is exact, so a  *)
(* Decimal is modelled by an integer count of a fixed unit:                *)
(*   quantity           tenths of a piece          (1 piece   = 10)        *)
(*   rate (inclusive)   hundredths of a rupee      (1.00      = 100)       *)
(*   gstRate            tenths of a percent        (18 %      = 180)       *)
(*   every money value  thousandths of a rupee     (1.00      = 1000)      *)
(* A value quantized to Decimal('0.01') is a multiple of 10 thousandths.   *)
(* The float() / Decimal(str()) round trips of the code are exact for the  *)
(* magnitudes modelled and carry the value unchanged.                      *)
(*                                                                         *)
(* Representation of text.  A formatted number, a voucher number and the   *)
(* accounting engine's response are sequences of characters (one-character *)
(* strings; a markup tag of the response is one element).  Fixed literals  *)
(* of the document are TLA+ strings.                                       *)
(***************************************************************************)
EXTENDS Integers, Sequences, FiniteSets, TLC

VARIABLES pc, args, calc, voucher_data, built, posted, response, reply

vars == <<pc, args, calc, voucher_data, built, posted, response, reply>>

(***************************************************************************)
(* Bounds of the model.                                                    *)
(***************************************************************************)
MaxQtyTenths == 25
MaxRateCents == 30
MaxItems == 2
MaxFragments == 2

(***************************************************************************)
(* Decimal helpers.                                                        *)
(***************************************************************************)
Abs(n) == IF n < 0 THEN -n ELSE n

\* n / d rounded to an integer, ties away from zero (decimal.ROUND_HALF_UP).
DivHalfUp(n, d) ==
    LET a == Abs(n)
        q == a \div d
        r == a % d
        m == IF 2 * r >= d THEN q + 1 ELSE q
    IN  IF n < 0 THEN -m ELSE m

\* n / d rounded to an integer, ties to the even neighbour: Python's round()
\* of a float and the 'f' format presentation of a float.
DivHalfEven(n, d) ==
    LET a == Abs(n)
        q == a \div d
        r == a % d
        m == IF 2 * r > d \/ (2 * r = d /\ q % 2 = 1) THEN q + 1 ELSE q
    IN  IF n < 0 THEN -m ELSE m

\* x.quantize(Decimal('0.01'), rounding=ROUND_HALF_UP), x in thousandths.
Quantize(milli) == 10 * DivHalfUp(milli, 10)

\* gst_amount = (total_amount - base_amount).quantize(0.01, ROUND_HALF_UP)
GstAmount(total_amount, base_amount) ==
    Quantize(total_amount - base_amount)

\* Mutant: base amount truncated instead of rounded half up.
BaseAmountTruncated(total_amount, gst_rate) ==
    10 * ((total_amount * 100) \div (1000 + gst_rate))

\* base_amount = (total_amount / (1 + gst_rate/100)).quantize(0.01, ROUND_HALF_UP)
\* total_amount / divisor = total_amount * 1000 / (1000 + gst_rate) thousandths;
\* rounding that quotient to hundredths is one rounding of
\* total_amount * 100 / (1000 + gst_rate).
BaseAmount(total_amount, gst_rate) ==
    10 * DivHalfUp(total_amount * 100, 1000 + gst_rate)

\* calculate_amounts_precise(qty, rate_incl_gst, gst_rate): qty in tenths,
\* rate_incl_gst in hundredths, gst_rate in tenths of a percent; the result's
\* money values in thousandths.
calculate_amounts_precise(qty, rate_incl_gst, gst_rate) ==
    LET total_amount == qty * rate_incl_gst
        base_amount  == BaseAmount(total_amount, gst_rate)
        gst_amount   == GstAmount(total_amount, base_amount)
        base_rate    == 10 * DivHalfUp(base_amount, qty)
    IN  [base_amount   |-> base_amount,
         gst_amount    |-> gst_amount,
         base_rate     |-> base_rate,
         total_amount  |-> total_amount,
         rate_incl_gst |-> rate_incl_gst * 10]

(***************************************************************************)
(* Text: formatted numbers are sequences of characters.                    *)
(***************************************************************************)
Digit(d) == <<"0", "1", "2", "3", "4", "5", "6", "7", "8", "9">>[d + 1]

RECURSIVE Digits(_)
\* The decimal digits of a natural number, no padding.
Digits(n) == IF n < 10 THEN <<Digit(n)>> ELSE Digits(n \div 10) \o <<Digit(n % 10)>>

\* f'{n:02d}' for 0 <= n <= 99
Pad2(n) == <<Digit((n \div 10) % 10), Digit(n % 10)>>

\* strftime's %Y: four digits
Pad4(n) == Pad2((n \div 100) % 100) \o Pad2(n % 100)

Sign(n) == IF n < 0 THEN <<"-">> ELSE <<>>

\* f'{x:.2f}' of a float holding `milli` thousandths (every use formats a value
\* with at most two fractional digits, so no digit is dropped).
Format2f(milli) ==
    LET c == DivHalfEven(milli, 10)
    IN  Sign(c) \o Digits(Abs(c) \div 100) \o <<".">> \o Pad2(Abs(c) % 100)

\* f'{x:.0f}' of the float n / d: the nearest integer, ties to even.
Format0f(n, d) ==
    LET v == DivHalfEven(n, d)
    IN  Sign(v) \o Digits(Abs(v))

\* int(x) of the float n / d: truncation toward zero.
IntOf(n, d) == IF n < 0 THEN -(Abs(n) \div d) ELSE n \div d

Pcs == <<" ", "P", "c", "s">>
PerPcs == <<"/", "P", "c", "s">>

(***************************************************************************)
(* xml.etree.ElementTree elements: a tag, attributes, a text, children.    *)
(***************************************************************************)
\* ET.SubElement(parent, tag).text = text
Leaf(tag, text) == [tag |-> tag, attrib |-> <<>>, text |-> text, kids |-> <<>>]

\* An element with attributes and children, no text.
Node(tag, attrib, kids) == [tag |-> tag, attrib |-> attrib, text |-> "", kids |-> kids]

\* cond and the elements, or nothing: an `if cond:` around SubElement calls.
When(cond, elems) == IF cond THEN elems ELSE <<>>

\* The children of e with the given tag, in document order (Element.findall).
RECURSIVE FindAllIn(_, _)
FindAllIn(kids, tag) ==
    IF kids = <<>> THEN <<>>
    ELSE (IF Head(kids).tag = tag THEN <<Head(kids)>> ELSE <<>>)
         \o FindAllIn(Tail(kids), tag)

FindAll(e, tag) == FindAllIn(e.kids, tag)

\* d.get(k, default)
Get(d, k, default) == IF k \in DOMAIN d THEN d[k] ELSE default

(***************************************************************************)
(* generate_voucher_number                                                 *)
(***************************************************************************)
\* f"RS-{year:02d}/{next_year:02d}-{number}", with now.year and the random
\* number as parameters.
generate_voucher_number(now_year, number) ==
    <<"R", "S", "-">> \o Pad2(now_year % 100) \o <<"/">>
        \o Pad2((now_year + 1) % 100) \o <<"-">> \o Digits(number)

(***************************************************************************)
(* datetime.strptime(date, '%Y-%m-%d').strftime('%Y%m%d'); a date string   *)
(* "y-m-d" is modelled by <<y, m, d>>.                                     *)
(***************************************************************************)
IsLeap(y) == (y % 4 = 0 /\ y % 100 # 0) \/ y % 400 = 0

DaysIn(y, m) ==
    IF m = 2 THEN (IF IsLeap(y) THEN 29 ELSE 28)
    ELSE IF m \in {4, 6, 9, 11} THEN 30 ELSE 31

\* strptime raises ValueError unless the string is a calendar date.
DateParses(date) ==
    /\ date[1] \in 1..9999
    /\ date[2] \in 1..12
    /\ date[3] \in 1..DaysIn(date[1], date[2])

TallyDate(date) == Pad4(date[1]) \o Pad2(date[2]) \o Pad2(date[3])

(***************************************************************************)
(* create_retail_sale_xml: the totals (lines 127-172)                      *)
(***************************************************************************)
\* One entry of items_calculated for one item of voucher_data['items'].
ItemCalculated(item) ==
    LET c == calculate_amounts_precise(item.quantity, item.rate, item.gstRate)
    IN  [name          |-> item.name,
         imei          |-> Get(item, "imei", ""),
         quantity      |-> item.quantity,
         rate_incl_gst |-> c.rate_incl_gst,
         gst_rate      |-> item.gstRate,
         base_amount   |-> c.base_amount,
         gst_amount    |-> c.gst_amount,
         base_rate     |-> c.base_rate]

ItemsCalculated(items) == [i \in 1..Len(items) |-> ItemCalculated(items[i])]

\* Mutant: each line's half share rounded to the cent before it is added.
HalfShareRounded(gst_amt) == Quantize(DivHalfUp(gst_amt, 2))

\* gst_amt / Decimal('2'): exact, gst_amt being a whole number of cents.
HalfShare(gst_amt) == gst_amt \div 2

RECURSIVE SumBase(_)
\* subtotal += Decimal(str(calc['base_amount'])) over the loop
SumBase(ic) == IF ic = <<>> THEN 0 ELSE Head(ic).base_amount + SumBase(Tail(ic))

RECURSIVE SumHalf(_)
\* cgst_total += gst_amt / Decimal('2') over the loop (sgst_total alike)
SumHalf(ic) == IF ic = <<>> THEN 0 ELSE HalfShare(Head(ic).gst_amount) + SumHalf(Tail(ic))

\* rounded_total = round(float(total)): Python's round, ties to even.
RoundedTotal(total) == DivHalfEven(total, 1000)

\* Mutant: the difference taken the other way round.
RoundOffReversed(rounded_total, total) == Quantize(total - rounded_total * 1000)

\* round_off = (Decimal(str(rounded_total)) - total).quantize(0.01, ROUND_HALF_UP)
RoundOff(rounded_total, total) == Quantize(rounded_total * 1000 - total)

\* The totals of lines 158-166, from items_calculated.
Totals(ic) ==
    LET cgst_total    == Quantize(SumHalf(ic))
        sgst_total    == Quantize(SumHalf(ic))
        subtotal      == Quantize(SumBase(ic))
        total         == subtotal + cgst_total + sgst_total
        rounded_total == RoundedTotal(total)
    IN  [subtotal      |-> subtotal,
         cgst_total    |-> cgst_total,
         sgst_total    |-> sgst_total,
         total         |-> total,
         rounded_total |-> rounded_total,
         round_off     |-> RoundOff(rounded_total, total)]

(***************************************************************************)
(* create_retail_sale_xml: the document (lines 174-335)                    *)
(***************************************************************************)
\* if address or phone:   (the ADDRESS.LIST block)
HasAddressList(address, phone) == address # "" \/ phone # ""

\* if address:            (the BASICBUYERADDRESS.LIST block)
HasBuyerAddress(address) == address # ""

\* Mutant: the serial descriptor emitted for every line.
HasImeiAlways(item_calc) == TRUE

\* if item_calc['imei']:
HasImei(item_calc) == item_calc.imei # ""

AddressBlocks(address, phone) ==
    When(HasAddressList(address, phone),
         <<Node("ADDRESS.LIST", <<<<"TYPE", "String">>>>,
                When(address # "", <<Leaf("ADDRESS", address)>>)
                \o When(phone # "", <<Leaf("ADDRESS", phone)>>))>>)
    \o When(HasBuyerAddress(address),
            <<Node("BASICBUYERADDRESS.LIST", <<<<"TYPE", "String">>>>,
                   <<Leaf("BASICBUYERADDRESS", address)>>)>>)

\* Lines 214-236.
HeaderFields(party_name, customer_name, tally_date, voucher_number) ==
    <<Node("OLDAUDITENTRYIDS.LIST", <<<<"TYPE", "Number">>>>,
           <<Leaf("OLDAUDITENTRYIDS", <<"-", "1">>)>>),
      Leaf("DATE", tally_date),
      Leaf("VCHSTATUSDATE", tally_date),
      Leaf("GSTREGISTRATIONTYPE", "Unregistered/Consumer"),
      Leaf("STATENAME", "Maharashtra"),
      Leaf("COUNTRYOFRESIDENCE", "India"),
      Leaf("PLACEOFSUPPLY", "Maharashtra"),
      Leaf("VOUCHERTYPENAME", "Retail Sale"),
      Leaf("PARTYNAME", customer_name),
      Leaf("PARTYLEDGERNAME", party_name),
      Leaf("VOUCHERNUMBER", voucher_number),
      Leaf("BASICBUYERNAME", party_name),
      Leaf("PARTYMAILINGNAME", customer_name),
      Leaf("CONSIGNEEMAILINGNAME", party_name),
      Leaf("CONSIGNEESTATENAME", "Maharashtra"),
      Leaf("CONSIGNEECOUNTRYNAME", "India"),
      Leaf("BASICBASEPARTYNAME", party_name),
      Leaf("PERSISTEDVIEW", "Invoice Voucher View"),
      Leaf("VCHENTRYMODE", "Item Invoice"),
      Leaf("EFFECTIVEDATE", tally_date)>>

\* bool_flags, in the dict's insertion order.
BoolFlags ==
    <<Leaf("DIFFACTUALQTY", "No"), Leaf("ISMSTFROMSYNC", "No"),
      Leaf("ISDELETED", "No"), Leaf("ISSECURITYONWHENENTERED", "No"),
      Leaf("ASORIGINAL", "No"), Leaf("AUDITED", "No"),
      Leaf("FORJOBCOSTING", "No"), Leaf("ISOPTIONAL", "No"),
      Leaf("USEFOREXCISE", "No"), Leaf("ISFORJOBWORKIN", "No"),
      Leaf("ALLOWCONSUMPTION", "No"), Leaf("USEFORINTEREST", "No"),
      Leaf("USEFORGAINLOSS", "No"), Leaf("USEFORGODOWNTRANSFER", "No"),
      Leaf("USEFORCOMPOUND", "No"), Leaf("ISREVERSECHARGEAPPLICABLE", "No"),
      Leaf("ISINVOICE", "Yes"), Leaf("ISOVERSEASTOURISTTRANS", "No")>>

\* One RATEDETAILS.LIST block; rate_val is n / d percent.
RateDetail(duty_head, n, d) ==
    Node("RATEDETAILS.LIST", <<>>,
         <<Leaf("GSTRATEDUTYHEAD", duty_head),
           Leaf("GSTRATEVALUATIONTYPE", "Based on Value"),
           Leaf("GSTRATE", <<" ">> \o Format0f(n, d))>>)

\* Lines 287-297: gst_half = gst_rate / 2, and the three descriptors.
\* gst_rate is in tenths of a percent, so gst_half is gst_rate / 20 percent.
RateDetails(gst_rate) ==
    <<RateDetail("CGST", gst_rate, 20),
      RateDetail("SGST/UTGST", gst_rate, 20),
      RateDetail("IGST", gst_rate, 10)>>

\* Lines 251-297: one ALLINVENTORYENTRIES.LIST block.
InventoryEntry(item_calc, voucher_number) ==
    LET qty    == <<" ">> \o Format0f(item_calc.quantity, 10) \o Pcs
        amount == Format2f(item_calc.base_amount)
        incl   == Format2f(item_calc.rate_incl_gst) \o PerPcs
    IN  Node("ALLINVENTORYENTRIES.LIST", <<>>,
          When(HasImei(item_calc),
               <<Node("BASICUSERDESCRIPTION.LIST", <<<<"TYPE", "String">>>>,
                      <<Leaf("BASICUSERDESCRIPTION", item_calc.imei)>>)>>)
          \o <<Leaf("STOCKITEMNAME", item_calc.name),
               Leaf("ISDEEMEDPOSITIVE", "No"),
               Leaf("RATE", Format2f(item_calc.base_rate) \o PerPcs),
               Leaf("AMOUNT", amount),
               Leaf("ACTUALQTY", qty),
               Leaf("BILLEDQTY", qty),
               Leaf("INCLVATRATE", incl),
               Node("BATCHALLOCATIONS.LIST", <<>>,
                    <<Leaf("GODOWNNAME", "Main Location"),
                      Leaf("BATCHNAME", "Primary Batch"),
                      Leaf("DESTINATIONGODOWNNAME", "Main Location"),
                      Leaf("TRACKINGNUMBER", voucher_number),
                      Leaf("AMOUNT", amount),
                      Leaf("ACTUALQTY", qty),
                      Leaf("BILLEDQTY", qty),
                      Leaf("INCLVATRATE", incl)>>),
               Node("ACCOUNTINGALLOCATIONS.LIST", <<>>,
                    <<Leaf("LEDGERNAME", "SALES GST"),
                      Leaf("ISDEEMEDPOSITIVE", "No"),
                      Leaf("AMOUNT", amount)>>)>>
          \o RateDetails(item_calc.gst_rate))

InventoryEntries(ic, voucher_number) ==
    [i \in 1..Len(ic) |-> InventoryEntry(ic[i], voucher_number)]

\* Mutant: the rounding entry only for an upward adjustment.
HasRoundOffIfPositive(round_off) == round_off > 1

\* if abs(round_off_float) > 0.001:
HasRoundOff(round_off) == Abs(round_off) > 1

\* Mutant: the label taken from the last line's rate.
TaxLedgerNameOfLastLine(head, ic) ==
    head \o <<" ">> \o Digits(IntOf(ic[Len(ic)].gst_rate, 20)) \o <<"%">>

\* f'CGST {gst_rate_for_ledger}%' with
\* gst_rate_for_ledger = int(items_calculated[0]['gst_rate'] / 2)
TaxLedgerName(head, ic) ==
    head \o <<" ">> \o Digits(IntOf(ic[1].gst_rate, 20)) \o <<"%">>

\* Lines 306-322: one tax ledger entry.
TaxLedger(head, ic, amount) ==
    Node("LEDGERENTRIES.LIST", <<>>,
         <<Leaf("LEDGERNAME", TaxLedgerName(head, ic)),
           Leaf("METHODTYPE", "GST"),
           Leaf("ISDEEMEDPOSITIVE", "No"),
           Leaf("AMOUNT", Format2f(amount)),
           Leaf("VATEXPAMOUNT", Format2f(amount))>>)

\* Lines 324-332: the rounding ledger entry.
RoundLedger(round_off) ==
    Node("LEDGERENTRIES.LIST", <<>>,
         <<Leaf("ROUNDTYPE", "Normal Rounding"),
           Leaf("LEDGERNAME", "Round Up/Down"),
           Leaf("METHODTYPE", "As Total Amount Rounding"),
           Leaf("ISDEEMEDPOSITIVE", "No"),
           Leaf("ROUNDLIMIT", <<" ", "1">>),
           Leaf("AMOUNT", Format2f(round_off)),
           Leaf("VATEXPAMOUNT", Format2f(round_off))>>)

\* Lines 299-332.
LedgerEntries(party_name, ic, t) ==
    <<Node("LEDGERENTRIES.LIST", <<>>,
           <<Leaf("LEDGERNAME", party_name),
             Leaf("ISDEEMEDPOSITIVE", "Yes"),
             Leaf("ISPARTYLEDGER", "Yes"),
             Leaf("AMOUNT", <<"-">> \o Format2f(t.rounded_total * 1000))>>)>>
    \o When(t.cgst_total > 0, <<TaxLedger(<<"C", "G", "S", "T">>, ic, t.cgst_total)>>)
    \o When(t.sgst_total > 0, <<TaxLedger(<<"S", "G", "S", "T">>, ic, t.sgst_total)>>)
    \o When(HasRoundOff(t.round_off), <<RoundLedger(t.round_off)>>)

\* The exceptions create_retail_sale_xml raises: KeyError for a missing
\* partyName, customerName, date or items, ValueError from strptime, and the
\* decimal exception of base_amount / qty_dec for a zero quantity.
XmlRaises(vd) ==
    IF ~({"partyName", "customerName", "date", "items"} \subseteq DOMAIN vd)
    THEN TRUE
    ELSE \/ ~DateParses(vd.date)
         \/ \E i \in 1..Len(vd.items) : vd.items[i].quantity = 0

\* The VOUCHER element.
Voucher(vd, voucher_number, ic, t) ==
    Node("VOUCHER",
         <<<<"REMOTEID", "">>, <<"VCHKEY", "">>, <<"VCHTYPE", "Retail Sale">>,
           <<"ACTION", "Create">>, <<"OBJVIEW", "Invoice Voucher View">>>>,
         AddressBlocks(Get(vd, "address", ""), Get(vd, "phone", ""))
         \o HeaderFields(vd.partyName, vd.customerName, TallyDate(vd.date),
                         voucher_number)
         \o BoolFlags
         \o InventoryEntries(ic, voucher_number)
         \o LedgerEntries(vd.partyName, ic, t))

\* The ENVELOPE element (lines 174-194).
Envelope(vd, voucher) ==
    LET company_name == Get(vd, "companyName", "")
    IN  Node("ENVELOPE", <<>>,
          <<Node("HEADER", <<>>, <<Leaf("TALLYREQUEST", "Import Data")>>),
            Node("BODY", <<>>,
              <<Node("IMPORTDATA", <<>>,
                 <<Node("REQUESTDESC", <<>>,
                     <<Leaf("REPORTNAME", "Vouchers"),
                       Node("STATICVARIABLES", <<>>,
                            When(company_name # "",
                                 <<Leaf("SVCURRENTCOMPANY", company_name)>>))>>),
                   Node("REQUESTDATA", <<>>,
                     <<Node("TALLYMESSAGE", <<<<"xmlns:UDF", "TallyUDF">>>>,
                            <<voucher>>)>>)>>)>>)>>)

\* create_retail_sale_xml(voucher_data), for a voucher_data on which it does
\* not raise; voucher_number is what generate_voucher_number returned.  The
\* result is the document and the voucher number; the local totals and
\* items_calculated are kept beside them.
create_retail_sale_xml(vd, voucher_number) ==
    LET ic == ItemsCalculated(vd.items)
        t  == Totals(ic)
    IN  [xml              |-> Envelope(vd, Voucher(vd, voucher_number, ic, t)),
         voucher_number   |-> voucher_number,
         items_calculated |-> ic,
         totals           |-> t]

\* The VOUCHER element of a built document.
VoucherOf(xml) == xml.kids[2].kids[1].kids[2].kids[1].kids[1]

(***************************************************************************)
(* create_voucher: validation (lines 363-375) and the interpretation of    *)
(* the accounting engine's response (lines 390-439)                        *)
(***************************************************************************)
\* not voucher_data.get(k), for a text field
Lacks(vd, k) == Get(vd, k, "") = ""

\* not voucher_data.get('items') or len(voucher_data['items']) == 0
LacksItems(vd) == Get(vd, "items", <<>>) = <<>>

\* Mutant: validation that forgets the customer name.
ValidationErrorNoCustomer(vd) ==
    IF Lacks(vd, "companyName") THEN "Company name is required"
    ELSE IF Lacks(vd, "partyName") THEN "Party name is required"
    ELSE IF LacksItems(vd) THEN "At least one item is required"
    ELSE ""

\* The four checks in their order; "" when the request passes.
ValidationError(vd) ==
    IF Lacks(vd, "companyName") THEN "Company name is required"
    ELSE IF Lacks(vd, "partyName") THEN "Party name is required"
    ELSE IF Lacks(vd, "customerName") THEN "Customer name is required"
    ELSE IF LacksItems(vd) THEN "At least one item is required"
    ELSE ""

\* jsonify({'success': False, 'error': ...}), status
Failure(status, error, detail) ==
    [status |-> status, success |-> FALSE, error |-> error, detail |-> detail,
     voucherNumber |-> <<>>]

\* The success response of lines 416-421.
Success(voucher_number) ==
    [status |-> 200, success |-> TRUE, error |-> "", detail |-> <<>>,
     voucherNumber |-> voucher_number]

\* A markup tag of the response text, or a lone '<': an element that holds '<'.
HasLt(tok) ==
    tok \in {"<LINEERROR>", "</LINEERROR>", "<ERROR>", "</ERROR>",
             "<VOUCHERNUMBER>", "</VOUCHERNUMBER>", "<RESPONSE>", "<"}

\* needle in response_text, for a needle that is one markup tag
Contains(text, tok) == \E i \in 1..Len(text) : text[i] = tok

\* Where open ([^<]+) close matches at position i: the end of the group.
GroupEnd(text, i, open, close) ==
    {j \in (i + 2)..Len(text) :
        /\ text[i] = open
        /\ text[j] = close
        /\ \A k \in (i + 1)..(j - 1) : ~HasLt(text[k])}

\* re.search(open + '([^<]+)' + close, text): <<>> for no match, else
\* <<group(1)>> of the leftmost match.
Search(text, open, close) ==
    LET starts == {i \in 1..Len(text) : GroupEnd(text, i, open, close) # {}}
    IN  IF starts = {} THEN <<>>
        ELSE LET i == CHOOSE a \in starts : \A b \in starts : a <= b
                 j == CHOOSE e \in GroupEnd(text, i, open, close) : TRUE
             IN  <<SubSeq(text, i + 1, j - 1)>>

RECURSIVE LStrip(_)
LStrip(t) == IF t # <<>> /\ Head(t) = " " THEN LStrip(Tail(t)) ELSE t

RECURSIVE RStrip(_)
RStrip(t) ==
    IF t # <<>> /\ t[Len(t)] = " " THEN RStrip(SubSeq(t, 1, Len(t) - 1)) ELSE t

\* str.strip()
Strip(t) == RStrip(LStrip(t))

\* Lines 395-398: the error text the handler reports, <<>> when it reports
\* none.
ErrorMatch(text) ==
    IF Contains(text, "<LINEERROR>") \/ Contains(text, "<ERROR>")
    THEN LET line == Search(text, "<LINEERROR>", "</LINEERROR>")
         IN  IF line # <<>> THEN line ELSE Search(text, "<ERROR>", "</ERROR>")
    ELSE <<>>

\* Lines 390-439: the reply to a response of the accounting engine, or to
\* the exception requests.post raised.
Respond(r, voucher_number) ==
    IF r.raised = "ConnectionError"
    THEN Failure(500, "Cannot connect to TallyPrime. Make sure Tally is running and XML API is enabled on port 9000.", <<>>)
    ELSE IF r.raised # "" THEN Failure(500, "Server error: ", <<r.raised>>)
    ELSE IF r.status_code # 200
    THEN Failure(500, "Tally returned HTTP ", Digits(r.status_code))
    ELSE LET error_match == ErrorMatch(r.text)
             vch_match   == Search(r.text, "<VOUCHERNUMBER>", "</VOUCHERNUMBER>")
         IN  IF error_match # <<>>
             THEN Failure(400, "Tally Error: ", error_match[1])
             ELSE Success(IF vch_match # <<>> THEN Strip(vch_match[1])
                          ELSE voucher_number)

(***************************************************************************)
(* Inputs                                                                  *)
(***************************************************************************)
\* GST slabs in tenths of a percent: 0, 0.5, 3, 5, 12, 18 and 28 percent.
GstRates == {0, 5, 30, 50, 120, 180, 280}

\* The arguments of calculate_amounts_precise.
CalcArgs == [qty : 1..MaxQtyTenths, rate : 1..MaxRateCents, gst : GstRates]

\* Sequences over S of length lo..hi.
SeqsOf(S, lo, hi) == UNION {[1..n -> S] : n \in lo..hi}

\* A dict from a record of options: <<>> leaves the key out, <<v>> sets it.
Dict(o) == [k \in {f \in DOMAIN o : o[f] # <<>>} |-> o[k][1]]

Opt(S) == {<<>>} \cup {<<v>> : v \in S}

\* Line items of a retail sale: one piece at 3.50, 116.49 or 1000.00
\* inclusive, at 0, 5 or 18 percent, with or without a serial number; and
\* half a piece at 0.01, untaxed; and one piece at 3.50 at 3 percent.
LineItems ==
    {Dict([name |-> <<"Phone X">>, imei |-> i, quantity |-> <<10>>,
           rate |-> <<r>>, gstRate |-> <<g>>]) :
        i \in {<<"">>, <<"356938035643809">>},
        r \in {350, 11649, 100000},
        g \in {0, 50, 180}}
    \cup {Dict([name |-> <<"Screen guard">>, imei |-> <<>>, quantity |-> <<5>>,
                rate |-> <<1>>, gstRate |-> <<0>>]),
          Dict([name |-> <<"Silver charm">>, imei |-> <<>>, quantity |-> <<10>>,
                rate |-> <<350>>, gstRate |-> <<30>>])}

\* The voucher_data given to create_retail_sale_xml.
XmlInputs ==
    {Dict([companyName |-> <<"Acme Mobiles">>, partyName |-> <<"Cash">>,
           customerName |-> <<"Walk-in">>, address |-> a, phone |-> p,
           date |-> <<<<2025, 12, 18>>>>, items |-> <<it>>]) :
        a \in {<<>>, <<"12 MG Road">>},
        p \in {<<"">>, <<"9800000000">>},
        it \in SeqsOf(LineItems, 1, MaxItems)}

\* What generate_voucher_number can return: the ends of randint's range, in
\* a year and in the last year of a century.
VoucherNumbers ==
    {generate_voucher_number(2025, 1000), generate_voucher_number(2099, 9999)}

\* Line items of the requests sent to create_voucher.
RequestItems ==
    {Dict([name |-> <<"Phone X">>, imei |-> i, quantity |-> <<q>>,
           rate |-> <<100000>>, gstRate |-> <<180>>]) :
        i \in {<<>>, <<"356938035643809">>}, q \in {0, 10}}

\* The JSON payloads of POST /create-voucher.
Requests ==
    {Dict([companyName |-> c, partyName |-> p, customerName |-> n,
           address |-> a, phone |-> <<>>, date |-> d, items |-> it]) :
        c \in Opt({"", "Acme Mobiles"}),
        p \in Opt({"", "Cash"}),
        n \in Opt({"", "Walk-in"}),
        a \in Opt({"12 MG Road"}),
        d \in Opt({<<2025, 12, 18>>, <<2025, 2, 30>>}),
        it \in Opt(SeqsOf(RequestItems, 0, MaxItems))}

\* Pieces of a response text: an element with a tag and a content, an
\* opening tag left unclosed, and plain text.
Fragments ==
    {<<"<" \o t \o ">">> \o c \o <<"</" \o t \o ">">> :
        t \in {"LINEERROR", "ERROR", "VOUCHERNUMBER"},
        c \in {<<>>, <<"7">>, <<" ", "4", "2", " ">>, <<"<RESPONSE>", "x">>}}
    \cup {<<"<ERROR>">>, <<"o", "k">>}

RECURSIVE Concat(_)
Concat(ss) == IF ss = <<>> THEN <<>> ELSE Head(ss) \o Concat(Tail(ss))

ResponseTexts == {Concat(fs) : fs \in SeqsOf(Fragments, 0, MaxFragments)}

\* What requests.post gives: an exception, or a response.
Responses ==
    {[raised |-> e, status_code |-> 0, text |-> <<>>] :
        e \in {"ConnectionError", "ReadTimeout"}}
    \cup {[raised |-> "", status_code |-> 500, text |-> <<>>]}
    \cup {[raised |-> "", status_code |-> 200, text |-> t] : t \in ResponseTexts}

(***************************************************************************)
(* calculate_amounts_precise on its own                                    *)
(***************************************************************************)
InitCalc ==
    /\ pc = "call"
    /\ args \in CalcArgs
    /\ calc = <<>>
    /\ voucher_data = <<>>
    /\ built = <<>>
    /\ posted = <<>>
    /\ response = <<>>
    /\ reply = <<>>

CalculateAmountsPrecise ==
    /\ pc = "call"
    /\ calc' = calculate_amounts_precise(args.qty, args.rate, args.gst)
    /\ pc' = "return"
    /\ UNCHANGED <<args, voucher_data, built, posted, response, reply>>

SpecCalc == InitCalc /\ [][CalculateAmountsPrecise]_vars

(***************************************************************************)
(* create_retail_sale_xml on its own                                       *)
(***************************************************************************)
InitXml ==
    /\ pc = "call"
    /\ voucher_data \in XmlInputs
    /\ args = <<>>
    /\ calc = <<>>
    /\ built = <<>>
    /\ posted = <<>>
    /\ response = <<>>
    /\ reply = <<>>

CreateRetailSaleXml ==
    /\ pc = "call"
    /\ \E vn \in VoucherNumbers : built' = create_retail_sale_xml(voucher_data, vn)
    /\ pc' = "built"
    /\ UNCHANGED <<args, calc, voucher_data, posted, response, reply>>

SpecXml == InitXml /\ [][CreateRetailSaleXml]_vars

(***************************************************************************)
(* POST /create-voucher                                                    *)
(***************************************************************************)
Init ==
    /\ pc = "idle"
    /\ args = <<>>
    /\ calc = <<>>
    /\ voucher_data = <<>>
    /\ built = <<>>
    /\ posted = <<>>
    /\ response = <<>>
    /\ reply = <<>>

\* A request that validation turns away (lines 365-375).
Reject ==
    /\ pc = "idle"
    /\ \E vd \in Requests :
        /\ ValidationError(vd) # ""
        /\ voucher_data' = vd
        /\ reply' = Failure(400, ValidationError(vd), <<>>)
    /\ pc' = "done"
    /\ UNCHANGED <<args, calc, built, posted, response>>

\* A request on which create_retail_sale_xml raises: the generic handler of
\* lines 433-439.
BuildFails ==
    /\ pc = "idle"
    /\ \E vd \in Requests :
        /\ ValidationError(vd) = ""
        /\ XmlRaises(vd)
        /\ voucher_data' = vd
        /\ reply' = Failure(500, "Server error: ", <<>>)
    /\ pc' = "done"
    /\ UNCHANGED <<args, calc, built, posted, response>>

\* A request whose document is built and posted (lines 377-388).
Post ==
    /\ pc = "idle"
    /\ \E vd \in Requests, vn \in VoucherNumbers :
        /\ ValidationError(vd) = ""
        /\ ~XmlRaises(vd)
        /\ voucher_data' = vd
        /\ built' = create_retail_sale_xml(vd, vn)
        /\ posted' = <<create_retail_sale_xml(vd, vn).xml>>
    /\ pc' = "posted"
    /\ UNCHANGED <<args, calc, response, reply>>

\* requests.post returns or raises, and the handler replies (lines 390-439).
Reply ==
    /\ pc = "posted"
    /\ \E r \in Responses :
        /\ response' = r
        /\ reply' = Respond(r, built.voucher_number)
    /\ pc' = "done"
    /\ UNCHANGED <<args, calc, voucher_data, built, posted>>

Next == Reject \/ BuildFails \/ Post \/ Reply

Spec == Init /\ [][Next]_vars

(***************************************************************************)
(* Reading the document back                                               *)
(***************************************************************************)
DigitValue(ch) == CHOOSE d \in 0..9 : Digit(d) = ch

IsDigit(ch) == \E d \in 0..9 : Digit(d) = ch

RECURSIVE NatOf(_)
\* The number a sequence of digits writes.
NatOf(ds) ==
    IF ds = <<>> THEN 0
    ELSE 10 * NatOf(SubSeq(ds, 1, Len(ds) - 1)) + DigitValue(ds[Len(ds)])

IsNumeral(ds) == ds # <<>> /\ \A i \in 1..Len(ds) : IsDigit(ds[i])

\* The thousandths that a text [-]d+.dd writes.
MilliOf(text) ==
    LET neg  == text # <<>> /\ Head(text) = "-"
        body == IF neg THEN Tail(text) ELSE text
        n    == Len(body)
        v    == 1000 * NatOf(SubSeq(body, 1, n - 3)) + 10 * NatOf(SubSeq(body, n - 1, n))
    IN  IF neg THEN -v ELSE v

\* A text of the shape [-]d+.dd
IsFixed2(text) ==
    LET neg  == text # <<>> /\ Head(text) = "-"
        body == IF neg THEN Tail(text) ELSE text
        n    == Len(body)
    IN  /\ n >= 4
        /\ body[n - 2] = "."
        /\ IsNumeral(SubSeq(body, 1, n - 3))
        /\ IsNumeral(SubSeq(body, n - 1, n))

\* The text of the only child of e with the given tag.
TextOf(e, tag) == FindAll(e, tag)[1].text

\* The inventory blocks of a document, one per line item, in order.
InventoryBlocks(xml) == FindAll(VoucherOf(xml), "ALLINVENTORYENTRIES.LIST")

\* The ledger entries of a document that are rounding entries.
RECURSIVE RoundEntriesIn(_)
RoundEntriesIn(es) ==
    IF es = <<>> THEN <<>>
    ELSE (IF FindAll(Head(es), "ROUNDTYPE") # <<>> THEN <<Head(es)>> ELSE <<>>)
         \o RoundEntriesIn(Tail(es))

RoundEntries(xml) == RoundEntriesIn(FindAll(VoucherOf(xml), "LEDGERENTRIES.LIST"))

RECURSIVE SumGst(_)
\* The combined tax: the sum of the lines' gst_amount.
SumGst(ic) == IF ic = <<>> THEN 0 ELSE Head(ic).gst_amount + SumGst(Tail(ic))

(***************************************************************************)
(* Properties                                                              *)
(***************************************************************************)
Address == Get(voucher_data, "address", "")
Phone == Get(voucher_data, "phone", "")

\* C1: for every transaction with at least one line item, subtotal + CGST +
\* SGST + rounding adjustment equals the rounded grand total, to the cent.
C1_LedgerBalances ==
    pc = "built" =>
        LET t == built.totals
        IN  t.subtotal + t.cgst_total + t.sgst_total + t.round_off
                = 1000 * t.rounded_total

\* C1 witness: a built transaction of two lines whose adjustment is not zero.
C1_Witness ==
    /\ pc = "built"
    /\ Len(voucher_data.items) = 2
    /\ built.totals.round_off # 0

\* C2: base_amount + gst_amount equals quantity * rate rounded half up to
\* two fractional digits.
C2_PennyIdentity ==
    pc = "return" =>
        calc.base_amount + calc.gst_amount = 10 * DivHalfUp(args.qty * args.rate, 10)

\* C3: the rounded grand total is the nearest whole unit of the grand total,
\* and a grand total ending in .50 goes to the next higher integer.
C3_RoundHalfUp ==
    pc = "built" =>
        LET t == built.totals
        IN  /\ 2 * Abs(1000 * t.rounded_total - t.total) <= 1000
            /\ t.total % 1000 = 500 => t.rounded_total = (t.total \div 1000) + 1

\* C4: both tax halves are equal, each is the combined tax divided by two
\* and rounded half up to the cent (17.77 gives 8.89 each), and the ledger
\* still balances against the rounded grand total.
C4_EqualHalves ==
    pc = "built" =>
        LET t   == built.totals
            tax == SumGst(built.items_calculated)
        IN  /\ t.cgst_total = t.sgst_total
            /\ t.cgst_total = 10 * DivHalfUp(tax, 20)
            /\ tax = 17770 => t.cgst_total = 8890
            /\ t.subtotal + t.cgst_total + t.sgst_total + t.round_off
                   = 1000 * t.rounded_total

\* C4 witness: a combined tax of 17.77 split into 8.89 and 8.89, one cent
\* more than the combined tax.
C4_Witness ==
    /\ pc = "built"
    /\ SumGst(built.items_calculated) = 17770
    /\ built.totals.cgst_total = 8890
    /\ built.totals.sgst_total = 8890

\* The scenario of C5: one line, quantity 1, inclusive rate 1000.00, 18 %.
C5_Scenario ==
    /\ pc = "built"
    /\ Len(voucher_data.items) = 1
    /\ voucher_data.items[1].quantity = 10
    /\ voucher_data.items[1].rate = 100000
    /\ voucher_data.items[1].gstRate = 180

\* What C5 states of the line and of the tax halves.
C5_LineAndHalves ==
    LET t == built.totals
        c == built.items_calculated[1]
    IN  /\ c.base_amount = 847460
        /\ c.gst_amount = 152540
        /\ c.base_rate = 847460
        /\ t.subtotal = 847460
        /\ t.cgst_total = 76270
        /\ t.sgst_total = 76270
        /\ t.rounded_total = 1000

\* C5 as stated: in the scenario the grand total is 999.99, the rounding
\* adjustment 0.01 and the rounding entry is in the document.
C5_AsStated ==
    C5_Scenario =>
        /\ C5_LineAndHalves
        /\ built.totals.total = 999990
        /\ built.totals.round_off = 10
        /\ Len(RoundEntries(built.xml)) = 1

\* C5 amended: in the scenario base 847.46, tax 152.54, base unit rate
\* 847.46, subtotal 847.46, halves 76.27 each, grand total 1000.00, rounded
\* grand total 1000, rounding adjustment 0.00, and no rounding entry.
C5_Amended ==
    C5_Scenario =>
        /\ C5_LineAndHalves
        /\ built.totals.total = 1000000
        /\ built.totals.round_off = 0
        /\ RoundEntries(built.xml) = <<>>

\* C5 witness: the scenario has been built.
C5_Witness == C5_Scenario /\ built.xml.tag = "ENVELOPE"

\* C6: the rounding entry is in the document exactly when the adjustment
\* exceeds 0.001 in magnitude; its AMOUNT and VATEXPAMOUNT write the
\* adjustment with its sign; a zero adjustment leaves no rounding entry.
C6_RoundingEntry ==
    pc = "built" =>
        LET r  == built.totals.round_off
            es == RoundEntries(built.xml)
        IN  /\ Len(es) <= 1
            /\ Len(es) = 1 <=> Abs(r) > 1
            /\ r = 0 => es = <<>>
            /\ es # <<>> =>
                /\ IsFixed2(TextOf(es[1], "AMOUNT"))
                /\ MilliOf(TextOf(es[1], "AMOUNT")) = r
                /\ Head(TextOf(es[1], "AMOUNT")) = "-" <=> r < 0
                /\ TextOf(es[1], "VATEXPAMOUNT") = TextOf(es[1], "AMOUNT")
                /\ TextOf(es[1], "LEDGERNAME") = "Round Up/Down"

\* C6 witness: a grand total rounded down, its entry in the document.
C6_Witness ==
    /\ pc = "built"
    /\ built.totals.round_off < 0
    /\ Len(RoundEntries(built.xml)) = 1

\* Every line with an empty serial number has no serial descriptor block.
NoSerialBlockWithoutSerial ==
    \A i \in 1..Len(voucher_data.items) :
        Get(voucher_data.items[i], "imei", "") = "" =>
            FindAll(InventoryBlocks(built.xml)[i], "BASICUSERDESCRIPTION.LIST") = <<>>

\* C7 as stated: an empty address, whatever the phone, leaves neither an
\* ADDRESS.LIST nor a BASICBUYERADDRESS.LIST block, and an empty serial
\* number leaves no BASICUSERDESCRIPTION.LIST block in its line.
C7_AsStated ==
    pc = "built" =>
        /\ Address = "" =>
            /\ FindAll(VoucherOf(built.xml), "ADDRESS.LIST") = <<>>
            /\ FindAll(VoucherOf(built.xml), "BASICBUYERADDRESS.LIST") = <<>>
        /\ NoSerialBlockWithoutSerial

\* C7 amended: no ADDRESS.LIST block when address and phone are both empty,
\* no BASICBUYERADDRESS.LIST block when the address is empty (whatever the
\* phone), no BASICUSERDESCRIPTION.LIST block in a line whose serial number
\* is empty.
C7_Amended ==
    pc = "built" =>
        /\ (Address = "" /\ Phone = "") =>
            FindAll(VoucherOf(built.xml), "ADDRESS.LIST") = <<>>
        /\ Address = "" =>
            FindAll(VoucherOf(built.xml), "BASICBUYERADDRESS.LIST") = <<>>
        /\ NoSerialBlockWithoutSerial

\* C7 witness: an empty address with a phone and a line without a serial
\* number: the address list is there, the buyer address is not.
C7_Witness ==
    /\ pc = "built"
    /\ Address = ""
    /\ Phone # ""
    /\ \E i \in 1..Len(voucher_data.items) : Get(voucher_data.items[i], "imei", "") = ""
    /\ Len(FindAll(VoucherOf(built.xml), "ADDRESS.LIST")) = 1
    /\ FindAll(VoucherOf(built.xml), "BASICBUYERADDRESS.LIST") = <<>>

\* The number a GSTRATE text writes after its leading space.
RateWritten(detail) == NatOf(Tail(TextOf(detail, "GSTRATE")))

\* C8: every line's inventory block has exactly three tax-rate descriptors,
\* CGST, SGST/UTGST, IGST in this order; the first two carry half of the
\* line's own tax rate and the third the line's full tax rate.
C8_RateDetailsPerLine ==
    pc = "built" =>
        \A i \in 1..Len(voucher_data.items) :
            LET rd   == FindAll(InventoryBlocks(built.xml)[i], "RATEDETAILS.LIST")
                rate == voucher_data.items[i].gstRate
            IN  /\ Len(rd) = 3
                /\ TextOf(rd[1], "GSTRATEDUTYHEAD") = "CGST"
                /\ TextOf(rd[2], "GSTRATEDUTYHEAD") = "SGST/UTGST"
                /\ TextOf(rd[3], "GSTRATEDUTYHEAD") = "IGST"
                /\ 20 * RateWritten(rd[1]) = rate
                /\ 20 * RateWritten(rd[2]) = rate
                /\ 10 * RateWritten(rd[3]) = rate

\* The request was turned away by validation: a client-fault reply with no
\* document built and nothing posted.
RejectedAtValidation ==
    /\ reply.status = 400
    /\ built = <<>>
    /\ posted = <<>>

\* The request went on to document construction: the document was built and
\* posted, or its construction raised and the generic handler replied.
WentOnToConstruction ==
    \/ built # <<>> /\ Len(posted) = 1
    \/ built = <<>> /\ posted = <<>> /\ reply.status = 500

\* C9 as stated: validation rejects exactly the requests that lack
\* partyName, customerName or items; companyName is optional.
C9_AsStated ==
    pc = "done" =>
        /\ RejectedAtValidation <=>
              \/ Get(voucher_data, "partyName", "") = ""
              \/ Get(voucher_data, "customerName", "") = ""
              \/ Get(voucher_data, "items", <<>>) = <<>>
        /\ ~RejectedAtValidation => WentOnToConstruction

\* C9 amended: validation rejects, before any document is built and before
\* any post, exactly the requests that lack companyName, partyName,
\* customerName or items; every other request goes on to construction.
C9_Amended ==
    pc = "done" =>
        /\ RejectedAtValidation <=>
              \/ Get(voucher_data, "companyName", "") = ""
              \/ Get(voucher_data, "partyName", "") = ""
              \/ Get(voucher_data, "customerName", "") = ""
              \/ Get(voucher_data, "items", <<>>) = <<>>
        /\ ~RejectedAtValidation => WentOnToConstruction

\* C9 witness: a request that lacks only companyName, rejected.
C9_Witness ==
    /\ pc = "done"
    /\ Get(voucher_data, "companyName", "") = ""
    /\ Get(voucher_data, "partyName", "") # ""
    /\ Get(voucher_data, "customerName", "") # ""
    /\ Get(voucher_data, "items", <<>>) # <<>>
    /\ RejectedAtValidation

\* C10: an HTTP 200 response that holds <LINEERROR> or <ERROR> is answered
\* with a failure, never with success.
C10_ErrorMarkerFails ==
    LET marked ==
            /\ response.raised = ""
            /\ response.status_code = 200
            /\ \/ Contains(response.text, "<LINEERROR>")
               \/ Contains(response.text, "<ERROR>")
    IN  (pc = "done" /\ posted # <<>> /\ marked) => ~reply.success

RECURSIVE TaxEntriesIn(_, _)
\* The ledger entries among es that are tax entries (METHODTYPE GST) whose
\* LEDGERNAME starts with head.
TaxEntriesIn(es, head) ==
    IF es = <<>> THEN <<>>
    ELSE (IF /\ FindAll(Head(es), "METHODTYPE") # <<>>
             /\ TextOf(Head(es), "METHODTYPE") = "GST"
             /\ SubSeq(TextOf(Head(es), "LEDGERNAME"), 1, Len(head)) = head
          THEN <<Head(es)>> ELSE <<>>)
         \o TaxEntriesIn(Tail(es), head)

TaxEntries(xml, head) ==
    TaxEntriesIn(FindAll(VoucherOf(xml), "LEDGERENTRIES.LIST"), head)

\* The text head, a space, the digits of n and a percent sign.
IsLabel(name, head, n) ==
    /\ Len(name) >= Len(head) + 3
    /\ SubSeq(name, 1, Len(head)) = head
    /\ name[Len(head) + 1] = " "
    /\ name[Len(name)] = "%"
    /\ IsNumeral(SubSeq(name, Len(head) + 2, Len(name) - 1))
    /\ NatOf(SubSeq(name, Len(head) + 2, Len(name) - 1)) = n

\* What C11 states of one tax head: its entry is in the document exactly
\* when the rounded half is positive, and then its label writes half of the
\* first line's rate, truncated to an integer, and its amount the half.
TaxEntryAsStated(head, half) ==
    LET es    == TaxEntries(built.xml, head)
        first == voucher_data.items[1].gstRate
    IN  /\ Len(es) <= 1
        /\ Len(es) = 1 <=> half > 0
        /\ es # <<>> =>
            /\ IsLabel(TextOf(es[1], "LEDGERNAME"), head, first \div 20)
            /\ MilliOf(TextOf(es[1], "AMOUNT")) = half

\* C11: a CGST (SGST) ledger entry is emitted exactly when the rounded tax
\* half is positive, and its label carries the integer truncation of half
\* the tax rate of the first line item, whatever the rates of later lines.
C11_TaxLedgerLabel ==
    pc = "built" =>
        /\ TaxEntryAsStated(<<"C", "G", "S", "T">>, built.totals.cgst_total)
        /\ TaxEntryAsStated(<<"S", "G", "S", "T">>, built.totals.sgst_total)

\* C11 witness: a first line at 0 % and a second at 18 %: the entries are
\* labelled CGST 0% and SGST 0% and carry the second line's tax.
C11_Witness ==
    /\ pc = "built"
    /\ Len(voucher_data.items) = 2
    /\ voucher_data.items[1].gstRate = 0
    /\ voucher_data.items[2].gstRate = 180
    /\ Len(TaxEntries(built.xml, <<"C", "G", "S", "T">>)) = 1
    /\ TextOf(TaxEntries(built.xml, <<"C", "G", "S", "T">>)[1], "LEDGERNAME")
           = <<"C", "G", "S", "T", " ", "0", "%">>
    /\ TextOf(TaxEntries(built.xml, <<"S", "G", "S", "T">>)[1], "LEDGERNAME")
           = <<"S", "G", "S", "T", " ", "0", "%">>
    /\ MilliOf(TextOf(TaxEntries(built.xml, <<"C", "G", "S", "T">>)[1], "AMOUNT"))
           = Quantize(built.items_calculated[2].gst_amount \div 2)

\* A first line at 3 %: the label writes 1, the truncation of 1.5.
C11_TruncationSeen ==
    /\ pc = "built"
    /\ voucher_data.items[1].gstRate = 30
    /\ Len(TaxEntries(built.xml, <<"C", "G", "S", "T">>)) = 1
    /\ TextOf(TaxEntries(built.xml, <<"C", "G", "S", "T">>)[1], "LEDGERNAME")
           = <<"C", "G", "S", "T", " ", "1", "%">>

====
